---- MODULE Spec2Model ----
(***************************************************************************)
(* A model of the experiment drivers of generalised_shapelets:             *)
(*   src/experiments/common.py  (save_results, _train_loop, main, ...)     *)
(*   src/experiments/uea.py     (_pad, get_data, main)                     *)
(* Every specification below shares the variables; a specification that    *)
(* does not exercise a part of the program leaves that part idle.          *)
(***************************************************************************)
EXTENDS Integers, Sequences, FiniteSets, TLC

VARIABLES
    dirs,       \* which of here/results, base_loc and loc exist on disk
    files,      \* the files of loc: filename (a sequence of characters) -> content
    files0,     \* the files of loc before the first save_results call
    ncalls,     \* the number of save_results calls made so far
    lastSave,   \* the last save_results call: files before it, the name it computed, how it ended
    \* _train_loop
    trainPc,    \* where _train_loop is: idle, epoch, batch, metrics, restore, returned
    epochs,     \* the epochs argument
    numBatches, \* the number of batches one pass over train_dataloader yields
    epoch,      \* the loop variable of 'for epoch in tqdm_range'
    batch,      \* how many batches of the current epoch have been processed
    breaking,
    model,      \* the model's parameters, named by the optimizer step that produced them
    nsteps,     \* optimizer steps taken so far
    best_model, \* alias: the very object model; otherwise a deep copy holding params
    best_train_loss,
    best_val_accuracy,
    best_epoch,
    history,
    evalTrace,  \* per metrics evaluation: the parameters evaluated and the learning rate around scheduler.step
    lr,         \* the optimizer's learning rate, in units of 1e-10
    scheduler,  \* ReduceLROnPlateau's best and num_bad_epochs
    \* _get_sample_batch
    sbPc,       \* idle, pass_start, iterating, returned, RuntimeError, StackError
    dataset,    \* the training dataset: class -> number of samples of that class
    num_classes,
    num_shapelets_per_class,
    num_shapelets,
    y_seen,     \* the defaultdict: class -> samples of it taken (its keys: the classes met)
    batch_elems, \* the samples taken: class -> how many
    passLeft,   \* the samples the current pass over the dataloader has not reached
    passToYield, \* how many samples the current pass still yields before dropping the rest
    \* common.main
    mainPc,     \* idle, entered, constructed, sampling, initialised, training, evaluated, saved, returned, raised
    args,       \* the arguments of the call
    hp,         \* the hyperparameters after lines 345-364
    stages,     \* the stages the call has completed, in order
    results,    \* the results object
    returned,   \* what the call returned
    \* uea.main
    ueaPc,      \* idle, get_data, data_loaded, in_main, AssertionError, TypeError
    ueaArgs,    \* the arguments of the call
    \* uea.get_data
    gdPc,       \* idle, loaded, padding, padded, transposed, IndexError, RuntimeError
    amount_train,
    raw_X,      \* all_X of line 100: per sample, per channel, the values read from the files
    maxlen,
    all_X,      \* all_X from line 107 on
    missing_rate, \* the missing_rate argument, in hundredths
    missTrace,  \* per (sample, channel) handled by the missingness step: the stream before,
                \* removed_points and the points paired with them
    raw_y,      \* all_y of line 101: the labels read from the files
    all_y,      \* all_y of line 162
    targets,    \* the OrderedDict of line 156: label -> integer
    counter,
    split,      \* the positions in all_X of the train, val and test samples
    datasets,   \* the three TensorDatasets of lines 178-180
    \* _evaluate_metrics
    evPc,       \* idle, batch, returned, ValueError, ZeroDivisionError
    evDataset,  \* the dataloader's dataset: kind of sample -> number of samples
    evBatchSize, \* the dataloader's batch size
    evLeft,     \* the samples the pass has not reached
    evToYield,  \* how many samples the pass still yields
    evBatch,    \* the samples of the batch being assembled: kind -> how many
    total_loss,
    total_accuracy,
    total_dataset_size,
    evResult    \* the _AttrDict returned: loss and accuracy, as <<numerator, denominator>>

fsVars == <<dirs, files>>
saveVars == <<files0, ncalls, lastSave>>
trainVars == <<trainPc, epochs, numBatches, epoch, batch, breaking, model, nsteps, best_model,
               best_train_loss, best_val_accuracy, best_epoch, history, evalTrace, lr, scheduler>>
sbVars == <<sbPc, dataset, num_classes, num_shapelets_per_class, num_shapelets, y_seen,
            batch_elems, passLeft, passToYield>>
mainVars == <<mainPc, args, hp, stages, results, returned>>
ueaVars == <<ueaPc, ueaArgs>>
getDataVars == <<gdPc, amount_train, raw_X, maxlen, all_X, missing_rate, missTrace, raw_y, all_y,
                 targets, counter, split, datasets>>
\* what the steps of get_data up to the transposition leave alone of get_data's own state
laterDataVars == <<missing_rate, missTrace, raw_y, all_y, targets, counter, split, datasets>>
evalVars == <<evPc, evDataset, evBatchSize, evLeft, evToYield, evBatch, total_loss, total_accuracy,
              total_dataset_size, evResult>>
dataVars == <<ueaVars, getDataVars, evalVars>>
vars == <<dirs, files, files0, ncalls, lastSave, trainVars, sbVars, mainVars, dataVars>>
\* what a step of _train_loop leaves alone
notTrainVars == <<fsVars, saveVars, sbVars, mainVars, dataVars>>
\* what a step of _get_sample_batch leaves alone
notSbVars == <<fsVars, saveVars, trainVars, mainVars, dataVars>>

(***************************************************************************)
(* Bounds of the model.                                                    *)
(***************************************************************************)
\* longest filename already present in a result subfolder
MaxNameLen == 2
\* number of sequential save_results calls
MaxCalls == 2
\* largest epochs argument of a training run whose metrics vary freely
MaxEpochs == 22
\* most batches one pass over the training dataloader yields
MaxBatches == 2
\* number of class labels a dataset may hold
MaxClasses == 3
\* most samples of one class in a small dataset
MaxCount == 2
\* largest num_shapelets_per_class
MaxPerClass == 2
\* largest epochs argument of a whole run of main
MaxMainEpochs == 1

(***************************************************************************)
(* Filenames and Python's int(str) / str(int).                             *)
(***************************************************************************)
Digits == {"0", "1", "2", "3", "4", "5", "6", "7", "8", "9"}

DigitVal(c) ==
    CASE c = "0" -> 0 [] c = "1" -> 1 [] c = "2" -> 2 [] c = "3" -> 3 [] c = "4" -> 4
      [] c = "5" -> 5 [] c = "6" -> 6 [] c = "7" -> 7 [] c = "8" -> 8 [] c = "9" -> 9

DigitChar(d) ==
    CASE d = 0 -> "0" [] d = 1 -> "1" [] d = 2 -> "2" [] d = 3 -> "3" [] d = 4 -> "4"
      [] d = 5 -> "5" [] d = 6 -> "6" [] d = 7 -> "7" [] d = 8 -> "8" [] d = 9 -> "9"

\* the characters the filenames found in a result subfolder are made of
NameChars == {"0", "9", "-", "+", "_", " ", "a"}

RECURSIVE NamesOfLen(_)
NamesOfLen(n) ==
    IF n = 0 THEN {<<>>}
    ELSE {Append(s, c) : s \in NamesOfLen(n - 1), c \in NameChars}

\* the filenames os.listdir may return: non-empty, at most MaxNameLen characters
Filenames == UNION {NamesOfLen(n) : n \in 1..MaxNameLen}

RECURSIVE LStrip(_)
LStrip(s) == IF s /= <<>> /\ Head(s) = " " THEN LStrip(Tail(s)) ELSE s

RECURSIVE RStrip(_)
RStrip(s) ==
    IF s /= <<>> /\ s[Len(s)] = " " THEN RStrip(SubSeq(s, 1, Len(s) - 1)) ELSE s

RECURSIVE DecimalValue(_)
\* the value of a run of digits and underscores, the underscores skipped
DecimalValue(s) ==
    IF s = <<>> THEN 0
    ELSE LET last == s[Len(s)]
             rest == DecimalValue(SubSeq(s, 1, Len(s) - 1))
         IN  IF last = "_" THEN rest ELSE 10 * rest + DigitVal(last)

\* int(filename): surrounding whitespace is stripped, one sign is allowed, then
\* digits with single underscores between them; anything else is a ValueError
IntParsable(s) ==
    LET t == RStrip(LStrip(s))
        body == IF t /= <<>> /\ t[1] \in {"+", "-"} THEN Tail(t) ELSE t
    IN  /\ body /= <<>>
        /\ \A i \in 1..Len(body) : body[i] \in Digits \cup {"_"}
        /\ body[1] \in Digits
        /\ body[Len(body)] \in Digits
        /\ \A i \in 1..(Len(body) - 1) : ~(body[i] = "_" /\ body[i + 1] = "_")

IntOf(s) ==
    LET t == RStrip(LStrip(s))
        neg == t[1] = "-"
        body == IF t[1] \in {"+", "-"} THEN Tail(t) ELSE t
    IN  IF neg THEN 0 - DecimalValue(body) ELSE DecimalValue(body)

RECURSIVE NatToStr(_)
NatToStr(n) ==
    IF n < 10 THEN <<DigitChar(n)>>
    ELSE Append(NatToStr(n \div 10), DigitChar(n % 10))

\* str(num)
IntToStr(n) == IF n < 0 THEN <<"-">> \o NatToStr(0 - n) ELSE NatToStr(n)

\* the smaller of the two taken for the larger
Min(a, b) == IF a <= b THEN a ELSE b

\* max(a, b)
Max(a, b) == IF a >= b THEN a ELSE b

RECURSIVE MaxOver(_, _)
\* the loop of save_results over os.listdir(loc), from the running value num
MaxOver(names, num) ==
    IF names = {} THEN num
    ELSE LET f == CHOOSE x \in names : TRUE
         IN  MaxOver(names \ {f}, IF IntParsable(f) THEN Max(num, IntOf(f)) ELSE num)

\* the increment of num left out
NextNumNoIncrement(names) == MaxOver(names, -1)

\* num after 'num = -1; for filename in os.listdir(loc): ...; num += 1'
NextNum(names) == MaxOver(names, -1) + 1

(***************************************************************************)
(* The results record and what save_results stores of it.                  *)
(***************************************************************************)
\* A value of the results dict is [type, v]: its Python type and what it holds.
DataloaderKeys == {"train_dataloader", "val_dataloader", "test_dataloader"}

\* str(model)
StrOf(m) == [type |-> "str", v |-> m.v]

ResultToSaveKeepsLoaders(res) ==
    [k \in DOMAIN res |-> IF k = "model" THEN StrOf(res[k]) ELSE res[k]]

\* lines 314-318: result_to_save, a copy of results without the dataloaders and
\* with the model as its string
ResultToSave(res) ==
    [k \in (DOMAIN res) \ DataloaderKeys |-> IF k = "model" THEN StrOf(res[k]) ELSE res[k]]

\* what json.dump with _TensorEncoder cannot encode
Unserialisable == {"Module", "DataLoader"}

\* _TensorEncoder: tensors become (nested) lists, the rest is written as it is
JsonOf(x) == IF x.type = "Tensor" THEN [type |-> "list", v |-> x.v] ELSE x

\* json.dump(result_to_save, f, cls=_TensorEncoder)
JsonDump(res) == [k \in DOMAIN res |-> JsonOf(res[k])]

\* the content of a file that was in the subfolder before any call
OldContent == [old |-> TRUE]

\* the results of the run'th sequential run, as far as save_results reads them
RunResults(run) ==
    [k \in DataloaderKeys \cup {"model", "history"} |->
        IF k = "model" THEN [type |-> "Module", v |-> "_LinearShapeletTransform"]
        ELSE IF k = "history" THEN [type |-> "list", v |-> <<run>>]
        ELSE [type |-> "DataLoader", v |-> k]]

(***************************************************************************)
(* save_results                                                            *)
(***************************************************************************)
NoSave == [outcome |-> "none", name |-> <<>>, before |-> <<>>, dirsBefore |-> {}]

\* os.mkdir(base_loc) needs here/results to exist
MkdirFails == "base" \notin dirs /\ "results" \notin dirs

save_results(res) ==
    /\ ncalls' = ncalls + 1
    /\ IF MkdirFails
       THEN /\ lastSave' = [outcome |-> "FileNotFoundError", name |-> <<>>,
                            before |-> files, dirsBefore |-> dirs]
            /\ UNCHANGED <<dirs, files>>
       ELSE LET name == IntToStr(NextNum(DOMAIN files))
                result_to_save == ResultToSave(res)
                encodable == \A k \in DOMAIN result_to_save :
                                result_to_save[k].type \notin Unserialisable
            IN  /\ dirs' = dirs \cup {"base", "loc"}
                /\ files' = [f \in (DOMAIN files) \cup {name} |->
                                IF f /= name THEN files[f]
                                ELSE IF encodable THEN JsonDump(result_to_save)
                                ELSE [truncated |-> TRUE]]
                /\ lastSave' = [outcome |-> IF encodable THEN "returned" ELSE "TypeError",
                                name |-> name, before |-> files, dirsBefore |-> dirs]
    /\ UNCHANGED files0

(***************************************************************************)
(* _train_loop                                                             *)
(***************************************************************************)
epoch_per_metric == 10
plateau_patience == 1
plateau_terminate == 50
\* lr=0.005 of torch.optim.Adam, in units of 1e-10
InitialLr == 50000000
\* math.inf
Inf == 1000000000
\* -math.inf, the scheduler's first best in mode 'max'
NegInf == -1

\* training losses a metrics evaluation may report, in units of 1e-4 (10001 is
\* within the 1.0001 tolerance of 10000)
LossValues == {5000, 10000, 10001}
\* validation accuracies a metrics evaluation may report, in units of 1e-5 (50002
\* and 50004 are within the scheduler's relative threshold of 50000)
AccValues == {0, 50000, 50002, 50004}

TrainIdle ==
    /\ trainPc = "idle"
    /\ epochs = 0
    /\ numBatches = 0
    /\ epoch = 0
    /\ batch = 0
    /\ breaking = FALSE
    /\ model = 0
    /\ nsteps = 0
    /\ best_model = [alias |-> TRUE, params |-> 0]
    /\ best_train_loss = Inf
    /\ best_val_accuracy = 0
    /\ best_epoch = 0
    /\ history = <<>>
    /\ evalTrace = <<>>
    /\ lr = InitialLr
    /\ scheduler = [best |-> NegInf, num_bad_epochs |-> 0]

\* lines 206-219: the locals of _train_loop and the scheduler, on entry
TrainLoopEnter(epochsArg, batchesPerPass) ==
    /\ trainPc = "idle"
    /\ trainPc' = "epoch"
    /\ epochs' = epochsArg
    /\ numBatches' = batchesPerPass
    /\ epoch' = 0
    /\ batch' = 0
    /\ breaking' = FALSE
    /\ best_model' = [alias |-> TRUE, params |-> model]
    /\ best_train_loss' = Inf
    /\ best_val_accuracy' = 0
    /\ best_epoch' = 0
    /\ history' = <<>>
    /\ evalTrace' = <<>>
    /\ scheduler' = [best |-> NegInf, num_bad_epochs |-> 0]
    /\ UNCHANGED <<model, nsteps, lr>>

\* 'for epoch in tqdm_range: if breaking: break'
LoopHead ==
    /\ trainPc = "epoch"
    /\ IF epoch >= epochs \/ breaking
       THEN trainPc' = "restore" /\ UNCHANGED batch
       ELSE trainPc' = "batch" /\ batch' = 0
    /\ UNCHANGED <<epochs, numBatches, epoch, breaking, model, nsteps, best_model, best_train_loss,
                   best_val_accuracy, best_epoch, history, evalTrace, lr, scheduler>>
    /\ UNCHANGED notTrainVars

\* lines 225-238: one batch: forward, loss.backward(), optimizer.step()
TrainBatch ==
    /\ trainPc = "batch"
    /\ batch < numBatches
    /\ ~breaking
    /\ nsteps' = nsteps + 1
    /\ model' = nsteps + 1
    /\ batch' = batch + 1
    /\ UNCHANGED <<trainPc, epochs, numBatches, epoch, breaking, best_model, best_train_loss,
                   best_val_accuracy, best_epoch, history, evalTrace, lr, scheduler>>
    /\ UNCHANGED notTrainVars

\* the last epoch not evaluated unless it is a tenth one
MetricsDueTenthOnly(e, total) == e % epoch_per_metric = 0

\* line 240
MetricsDue(e, total) == e % epoch_per_metric = 0 \/ e = total - 1

\* the batches of the epoch are exhausted: on to line 240
EndOfBatches ==
    /\ trainPc = "batch"
    /\ batch = numBatches \/ breaking
    /\ IF MetricsDue(epoch, epochs)
       THEN trainPc' = "metrics" /\ UNCHANGED epoch
       ELSE trainPc' = "epoch" /\ epoch' = epoch + 1
    /\ UNCHANGED <<epochs, numBatches, batch, breaking, model, nsteps, best_model, best_train_loss,
                   best_val_accuracy, best_epoch, history, evalTrace, lr, scheduler>>
    /\ UNCHANGED notTrainVars

\* line 246: train_metrics.loss * 1.0001 < best_train_loss
LossImproves(loss, best) == best = Inf \/ loss * 10001 < best * 10000

ValImprovesAlways(acc, best) == TRUE

\* line 250: val_metrics.accuracy > best_val_accuracy
ValImproves(acc, best) == acc > best

ShouldTerminateAtFifty(e, best) == e >= best + plateau_terminate

\* line 264: epoch > best_epoch + plateau_terminate
ShouldTerminate(e, best) == e > best + plateau_terminate

\* ReduceLROnPlateau(mode='max') with its defaults threshold=1e-4 (relative):
\* is_better(a, best) is a > best * (1 + threshold)
SchedulerIsBetter(a, best) == best = NegInf \/ a * 10000 > best * 10001

\* _reduce_lr with the defaults factor=0.1, min_lr=0, eps=1e-8 (100 units of 1e-10)
ReducedLr(old) ==
    LET new == Max(old \div 10, 0)
    IN  IF old - new > 100 THEN new ELSE old

SchedulerImpatient(bad) == bad >= plateau_patience

\* num_bad_epochs > patience
SchedulerOutOfPatience(bad) == bad > plateau_patience

\* scheduler.step(metric), cooldown=0: the new [best, num_bad_epochs, lr]
SchedulerStep(sch, oldLr, metric) ==
    LET better == SchedulerIsBetter(metric, sch.best)
        best == IF better THEN metric ELSE sch.best
        bad == IF better THEN 0 ELSE sch.num_bad_epochs + 1
    IN  IF SchedulerOutOfPatience(bad)
        THEN [best |-> best, num_bad_epochs |-> 0, lr |-> ReducedLr(oldLr)]
        ELSE [best |-> best, num_bad_epochs |-> bad, lr |-> oldLr]

\* lines 241-267: one metrics evaluation, the two _evaluate_metrics calls reporting
\* train_loss and val_accuracy
EvaluateMetrics(train_loss, val_accuracy) ==
    /\ trainPc = "metrics"
    /\ LET lossBetter == LossImproves(train_loss, best_train_loss)
           newBestEpoch == IF lossBetter THEN epoch ELSE best_epoch
           valBetter == ValImproves(val_accuracy, best_val_accuracy)
           stepped == SchedulerStep(scheduler, lr, val_accuracy)
       IN  /\ best_train_loss' = IF lossBetter THEN train_loss ELSE best_train_loss
           /\ best_epoch' = newBestEpoch
           /\ best_val_accuracy' = IF valBetter THEN val_accuracy ELSE best_val_accuracy
           /\ best_model' = IF valBetter THEN [alias |-> FALSE, params |-> model] ELSE best_model
           /\ scheduler' = [best |-> stepped.best, num_bad_epochs |-> stepped.num_bad_epochs]
           /\ lr' = stepped.lr
           /\ history' = Append(history, [epoch |-> epoch, train_loss |-> train_loss,
                                          val_accuracy |-> val_accuracy])
           /\ evalTrace' = Append(evalTrace, [params |-> model, nsteps |-> nsteps,
                                              lrBefore |-> lr, lrAfter |-> stepped.lr,
                                              stepped |-> val_accuracy,
                                              best_epoch |-> newBestEpoch,
                                              broke |-> ShouldTerminate(epoch, newBestEpoch)])
           /\ breaking' = IF ShouldTerminate(epoch, newBestEpoch) THEN TRUE ELSE breaking
    /\ epoch' = epoch + 1
    /\ trainPc' = "epoch"
    /\ UNCHANGED <<epochs, numBatches, batch, model, nsteps>>
    /\ UNCHANGED notTrainVars

\* an evaluation whose metrics may be any of LossValues and AccValues
Evaluate == \E l \in LossValues, a \in AccValues : EvaluateMetrics(l, a)

\* an evaluation of a run whose validation accuracy stays at one half
EvaluateFlat == \E l \in LossValues : EvaluateMetrics(l, 50000)

\* lines 269-271: the model takes best_model's parameters; return history
RestoreBest ==
    /\ trainPc = "restore"
    /\ model' = IF best_model.alias THEN model ELSE best_model.params
    /\ trainPc' = "returned"
    /\ UNCHANGED <<epochs, numBatches, epoch, batch, breaking, nsteps, best_model, best_train_loss,
                   best_val_accuracy, best_epoch, history, evalTrace, lr, scheduler>>
    /\ UNCHANGED notTrainVars

(***************************************************************************)
(* dataloader and _get_sample_batch                                        *)
(***************************************************************************)
\* batch_size=2048, as get_data builds its dataloaders
BatchSize == 2048

Classes == 0..(MaxClasses - 1)

RECURSIVE SumOver(_, _)
SumOver(f, S) ==
    IF S = {} THEN 0
    ELSE LET c == CHOOSE x \in S : TRUE IN f[c] + SumOver(f, S \ {c})

\* len(dataset)
Size(ds) == SumOver(ds, DOMAIN ds)

\* dataloader(dataset, batch_size=2048): shuffle=True, drop_last=True and
\* batch_size = min(batch_size, len(dataset)); the number of samples one pass
\* yields, the last incomplete batch being dropped
YieldedPerPass(ds) ==
    LET n == Size(ds)
        bs == IF BatchSize < n THEN BatchSize ELSE n
    IN  IF bs = 0 THEN 0 ELSE (n \div bs) * bs

SbIdle ==
    /\ sbPc = "idle"
    /\ dataset = [c \in Classes |-> 0]
    /\ num_classes = 0
    /\ num_shapelets_per_class = 0
    /\ num_shapelets = 0
    /\ y_seen = <<>>
    /\ batch_elems = [c \in Classes |-> 0]
    /\ passLeft = [c \in Classes |-> 0]
    /\ passToYield = 0

\* lines 46-47, on entry
SampleBatchEnter(ds, nc, perClass, total) ==
    /\ sbPc = "idle"
    /\ sbPc' = "pass_start"
    /\ dataset' = ds
    /\ num_classes' = nc
    /\ num_shapelets_per_class' = perClass
    /\ num_shapelets' = total
    /\ y_seen' = <<>>
    /\ batch_elems' = [c \in Classes |-> 0]
    /\ passLeft' = [c \in Classes |-> 0]
    /\ passToYield' = 0

\* 'for X, y in dataloader': a new pass, in a new random order
SamplePassStart ==
    /\ sbPc = "pass_start"
    /\ sbPc' = "iterating"
    /\ passLeft' = dataset
    /\ passToYield' = YieldedPerPass(dataset)
    /\ UNCHANGED <<dataset, num_classes, num_shapelets_per_class, num_shapelets, y_seen, batch_elems>>
    /\ UNCHANGED notSbVars

\* every sample taken, whatever y_seen says of its class
SampleNextTakesAll(yi) ==
    /\ sbPc = "iterating"
    /\ passToYield > 0
    /\ passLeft[yi] > 0
    /\ LET seen == IF yi \in DOMAIN y_seen THEN y_seen[yi] ELSE 0
           take == TRUE
           elems == [batch_elems EXCEPT ![yi] = @ + (IF take THEN 1 ELSE 0)]
       IN  /\ y_seen' = [c \in (DOMAIN y_seen) \cup {yi} |->
                            IF c = yi THEN seen + (IF take THEN 1 ELSE 0) ELSE y_seen[c]]
           /\ batch_elems' = elems
           /\ sbPc' = IF Size(elems) = num_shapelets
                      THEN (IF Size(elems) = 0 THEN "StackError" ELSE "returned")
                      ELSE "iterating"
    /\ passLeft' = [passLeft EXCEPT ![yi] = @ - 1]
    /\ passToYield' = passToYield - 1
    /\ UNCHANGED <<dataset, num_classes, num_shapelets_per_class, num_shapelets>>
    /\ UNCHANGED notSbVars

\* lines 50-58: the next sample of the pass, of class yi
SampleNext(yi) ==
    /\ sbPc = "iterating"
    /\ passToYield > 0
    /\ passLeft[yi] > 0
    /\ LET seen == IF yi \in DOMAIN y_seen THEN y_seen[yi] ELSE 0
           take == seen < num_shapelets_per_class
           elems == [batch_elems EXCEPT ![yi] = @ + (IF take THEN 1 ELSE 0)]
       IN  /\ y_seen' = [c \in (DOMAIN y_seen) \cup {yi} |->
                            IF c = yi THEN seen + (IF take THEN 1 ELSE 0) ELSE y_seen[c]]
           /\ batch_elems' = elems
           /\ sbPc' = IF Size(elems) = num_shapelets
                      THEN (IF Size(elems) = 0 THEN "StackError" ELSE "returned")
                      ELSE "iterating"
    /\ passLeft' = [passLeft EXCEPT ![yi] = @ - 1]
    /\ passToYield' = passToYield - 1
    /\ UNCHANGED <<dataset, num_classes, num_shapelets_per_class, num_shapelets>>
    /\ UNCHANGED notSbVars

SampleStep == \E yi \in Classes : SampleNext(yi)

\* lines 59-64: the pass is over
SamplePassEnd ==
    /\ sbPc = "iterating"
    /\ passToYield = 0
    /\ sbPc' = IF Cardinality(DOMAIN y_seen) * num_shapelets_per_class /= num_shapelets
               THEN "RuntimeError"
               ELSE "pass_start"
    /\ UNCHANGED <<dataset, num_classes, num_shapelets_per_class, num_shapelets, y_seen, batch_elems,
                   passLeft, passToYield>>
    /\ UNCHANGED notSbVars

(***************************************************************************)
(* common.main                                                             *)
(***************************************************************************)
\* None, and a value that is not None
Null == <<>>
Some(x) == <<x>>

\* the integer square root
ISqrt(x) == CHOOSE r \in 0..400 : r * r <= x /\ (r + 1) * (r + 1) > x

\* line 359: min((10 / timespan).sqrt(), 1), in hundredths; Python's min keeps the
\* tensor unless 1 is smaller
DefaultProportion(timespan) ==
    IF timespan = 0 \/ ISqrt(100000 \div timespan) > 100
    THEN [type |-> "int", v |-> 100]
    ELSE [type |-> "Tensor", v |-> ISqrt(100000 \div timespan)]

\* lines 345-364: the hyperparameters the run uses, from the arguments a
Hyperparameters(a) ==
    LET old == a.old_shapelets
        timespan == a.T - 1
        given == IF old THEN Some(30) ELSE a.max_shapelet_length_proportion
        proportion == IF given = Null THEN DefaultProportion(timespan)
                      ELSE [type |-> "float", v |-> given[1]]
    IN  [discrepancy_fn |-> IF old THEN "piecewise_constant_L2_squared" ELSE a.discrepancy_fn,
         max_shapelet_length_proportion |-> proportion,
         max_shapelet_length |-> timespan * proportion.v,
         num_shapelet_samples |-> IF a.num_shapelet_samples = Null
                                  THEN (proportion.v * a.T) \div 100
                                  ELSE a.num_shapelet_samples[1],
         ablation_pseudometric |-> IF old THEN FALSE ELSE a.ablation_pseudometric,
         ablation_learntlengths |-> IF old THEN FALSE ELSE a.ablation_learntlengths,
         ablation_similarreg |-> IF old THEN FALSE ELSE a.ablation_similarreg,
         log |-> ~old]

\* the number of batches of one pass over the training dataloader
BatchesPerPass(ds) ==
    LET n == Size(ds)
        bs == IF BatchSize < n THEN BatchSize ELSE n
    IN  IF bs = 0 THEN 0 ELSE n \div bs

\* lines 280-290 and 407-413: the results object of a run
ResultsOf(a, h, hist, train_metrics, val_metrics, test_metrics) ==
    LET value ==
          [times |-> [type |-> "Tensor", v |-> a.T],
           num_classes |-> [type |-> "int", v |-> a.num_classes],
           train_dataloader |-> [type |-> "DataLoader", v |-> "train_dataloader"],
           val_dataloader |-> [type |-> "DataLoader", v |-> "val_dataloader"],
           test_dataloader |-> [type |-> "DataLoader", v |-> "test_dataloader"],
           model |-> [type |-> "Module", v |-> "_LinearShapeletTransform"],
           parameters |-> [type |-> "int", v |-> "_count_parameters(model)"],
           history |-> [type |-> "list", v |-> hist],
           train_metrics |-> [type |-> "dict", v |-> train_metrics],
           val_metrics |-> [type |-> "dict", v |-> val_metrics],
           test_metrics |-> [type |-> "dict", v |-> test_metrics],
           num_shapelets_per_class |-> [type |-> "int", v |-> a.num_shapelets_per_class],
           num_shapelet_samples |-> [type |-> "int", v |-> h.num_shapelet_samples],
           max_shapelet_length_proportion |-> h.max_shapelet_length_proportion,
           ablation_pseudometric |-> [type |-> "bool", v |-> h.ablation_pseudometric],
           ablation_learntlengths |-> [type |-> "bool", v |-> h.ablation_learntlengths],
           ablation_similarreg |-> [type |-> "bool", v |-> h.ablation_similarreg],
           old_shapelets |-> [type |-> "bool", v |-> a.old_shapelets]]
    IN  [k \in DOMAIN value |-> value[k]]

MainIdle ==
    /\ mainPc = "idle"
    /\ args = Null
    /\ hp = Null
    /\ stages = <<>>
    /\ results = Null
    /\ returned = Null

\* lines 345-364
MainEnter(a) ==
    /\ mainPc = "idle"
    /\ mainPc' = "entered"
    /\ args' = a
    /\ hp' = Hyperparameters(a)
    /\ UNCHANGED <<stages, results, returned>>
    /\ UNCHANGED <<fsVars, saveVars, trainVars, sbVars, dataVars>>

\* lines 366-388: the discrepancy function and the model
MainConstruct ==
    /\ mainPc = "entered"
    /\ mainPc' = "constructed"
    /\ stages' = Append(stages, "model")
    /\ UNCHANGED <<args, hp, results, returned>>
    /\ UNCHANGED <<fsVars, saveVars, trainVars, sbVars, dataVars>>

\* lines 368 and 390: _get_sample_batch(train_dataloader, num_shapelets_per_class, num_shapelets)
MainSampleBatch ==
    /\ mainPc = "constructed"
    /\ mainPc' = "sampling"
    /\ SampleBatchEnter(args.dataset, args.num_classes, args.num_shapelets_per_class,
                        args.num_shapelets_per_class * args.num_classes)
    /\ UNCHANGED <<args, hp, stages, results, returned>>
    /\ UNCHANGED <<fsVars, saveVars, trainVars, dataVars>>

\* the exception of _get_sample_batch leaves main
MainSampleBatchRaises ==
    /\ mainPc = "sampling"
    /\ sbPc \in {"RuntimeError", "StackError"}
    /\ mainPc' = "raised"
    /\ UNCHANGED <<args, hp, stages, results, returned>>
    /\ UNCHANGED <<fsVars, saveVars, trainVars, sbVars, dataVars>>

\* lines 391-401: set_shapelets, the loss function, Adam(lr=0.005)
MainSetShapelets ==
    /\ mainPc = "sampling"
    /\ sbPc = "returned"
    /\ mainPc' = "initialised"
    /\ stages' = Append(stages, "sample_batch")
    /\ lr' = InitialLr
    /\ UNCHANGED <<args, hp, results, returned>>
    /\ UNCHANGED <<trainPc, epochs, numBatches, epoch, batch, breaking, model, nsteps, best_model,
                   best_train_loss, best_val_accuracy, best_epoch, history, evalTrace, scheduler>>
    /\ UNCHANGED <<fsVars, saveVars, sbVars, dataVars>>

\* line 403: the call of _train_loop
MainTrain ==
    /\ mainPc = "initialised"
    /\ mainPc' = "training"
    /\ TrainLoopEnter(args.epochs, BatchesPerPass(args.dataset))
    /\ UNCHANGED <<args, hp, stages, results, returned>>
    /\ UNCHANGED <<fsVars, saveVars, sbVars, dataVars>>

\* line 403: _train_loop has returned history
MainTrainReturns ==
    /\ mainPc = "training"
    /\ trainPc = "returned"
    /\ mainPc' = "trained"
    /\ stages' = Append(stages, "train")
    /\ UNCHANGED <<args, hp, results, returned>>
    /\ UNCHANGED <<fsVars, saveVars, trainVars, sbVars, dataVars>>

\* lines 405-413: _evaluate_model and the hyperparameters added to its result
MainEvaluate(train_metrics, val_metrics, test_metrics) ==
    /\ mainPc = "trained"
    /\ mainPc' = "evaluated"
    /\ results' = ResultsOf(args, hp, history, train_metrics, val_metrics, test_metrics)
    /\ stages' = Append(stages, "evaluate")
    /\ UNCHANGED <<args, hp, returned>>
    /\ UNCHANGED <<fsVars, saveVars, trainVars, sbVars, dataVars>>

ShouldSaveAlways(result_folder) == TRUE

\* line 414: result_folder is not None
ShouldSave(result_folder) == result_folder /= "None"

\* line 415
MainSave ==
    /\ mainPc = "evaluated"
    /\ ShouldSave(args.result_folder)
    /\ save_results(results)
    /\ mainPc' = IF lastSave'.outcome = "returned" THEN "saved" ELSE "raised"
    /\ stages' = IF lastSave'.outcome = "returned" THEN Append(stages, "save") ELSE stages
    /\ UNCHANGED <<args, hp, results, returned>>
    /\ UNCHANGED <<trainVars, sbVars, dataVars>>

\* line 416
MainReturn ==
    /\ mainPc = "saved" \/ (mainPc = "evaluated" /\ ~ShouldSave(args.result_folder))
    /\ mainPc' = "returned"
    /\ returned' = results
    /\ stages' = Append(stages, "return")
    /\ UNCHANGED <<args, hp, results>>
    /\ UNCHANGED <<fsVars, saveVars, trainVars, sbVars, dataVars>>

(***************************************************************************)
(* _evaluate_metrics over a dataloader of common.dataloader                *)
(***************************************************************************)
\* the samples of an evaluated dataset come in kinds (numbered as Classes): the
\* model's loss on a sample of kind c, and whether its prediction for it is right
LossOfKind(c) == c + 1
CorrectKind(c) == c % 2 = 0

\* the sum of the losses, and the number of right predictions, over the samples of
\* a dataset or batch
LossSum(ds) == SumOver([c \in DOMAIN ds |-> ds[c] * LossOfKind(c)], DOMAIN ds)
CorrectWeight(c) == IF CorrectKind(c) THEN 1 ELSE 0
CorrectCount(ds) == SumOver([c \in DOMAIN ds |-> ds[c] * CorrectWeight(c)], DOMAIN ds)

\* lines 26-34: what one pass of the dataloader yields of n samples, in batches of
\* bs = min(batch_size, n), with drop_last=True
YieldedOf(n, bs) == IF bs = 0 THEN 0 ELSE (n \div bs) * bs

EvalIdle ==
    /\ evPc = "idle"
    /\ evDataset = [c \in Classes |-> 0]
    /\ evBatchSize = 0
    /\ evLeft = [c \in Classes |-> 0]
    /\ evToYield = 0
    /\ evBatch = [c \in Classes |-> 0]
    /\ total_loss = 0
    /\ total_accuracy = 0
    /\ total_dataset_size = 0
    /\ evResult = <<>>

\* common.dataloader(dataset, batch_size=batch_size), which DataLoader rejects
\* for an empty dataset (batch_size 0), and lines 179-183 of _evaluate_metrics
EvalEnter(ds, batch_size) ==
    /\ evPc = "idle"
    /\ LET n == Size(ds)
           bs == IF batch_size < n THEN batch_size ELSE n
       IN  /\ evPc' = IF bs = 0 THEN "ValueError" ELSE "batch"
           /\ evBatchSize' = bs
           /\ evToYield' = YieldedOf(n, bs)
    /\ evDataset' = ds
    /\ evLeft' = ds
    /\ evBatch' = [c \in Classes |-> 0]
    /\ total_loss' = 0
    /\ total_accuracy' = 0
    /\ total_dataset_size' = 0
    /\ UNCHANGED evResult

\* the shuffled dataloader puts a sample of kind c into the batch it assembles
EvalDraw(c) ==
    /\ evPc = "batch"
    /\ evToYield > 0
    /\ Size(evBatch) < evBatchSize
    /\ evLeft[c] > 0
    /\ evLeft' = [evLeft EXCEPT ![c] = @ - 1]
    /\ evBatch' = [evBatch EXCEPT ![c] = @ + 1]
    /\ evToYield' = evToYield - 1
    /\ UNCHANGED <<evPc, evDataset, evBatchSize, total_loss, total_accuracy, total_dataset_size,
                   evResult>>
    /\ UNCHANGED <<fsVars, saveVars, trainVars, sbVars, mainVars, ueaVars, getDataVars>>

EvalDrawAny == \E c \in Classes : EvalDraw(c)

\* lines 184-191: the batch is evaluated; accuracy_fn and loss_fn give its means
EvalBatch ==
    /\ evPc = "batch"
    /\ Size(evBatch) = evBatchSize
    /\ LET batch_size == Size(evBatch)
       IN  /\ total_accuracy' = total_accuracy + CorrectCount(evBatch)
           /\ total_loss' = total_loss + LossSum(evBatch)
           /\ total_dataset_size' = total_dataset_size + batch_size
    /\ evBatch' = [c \in Classes |-> 0]
    /\ UNCHANGED <<evPc, evDataset, evBatchSize, evLeft, evToYield, evResult>>
    /\ UNCHANGED <<fsVars, saveVars, trainVars, sbVars, mainVars, ueaVars, getDataVars>>

\* lines 192-194: the pass is over
EvalFinish ==
    /\ evPc = "batch"
    /\ evToYield = 0
    /\ Size(evBatch) = 0
    /\ IF total_dataset_size = 0
       THEN evPc' = "ZeroDivisionError" /\ UNCHANGED evResult
       ELSE /\ evPc' = "returned"
            /\ evResult' = [loss |-> <<total_loss, total_dataset_size>>,
                            accuracy |-> <<total_accuracy, total_dataset_size>>]
    /\ UNCHANGED <<evDataset, evBatchSize, evLeft, evToYield, evBatch, total_loss, total_accuracy,
                   total_dataset_size>>
    /\ UNCHANGED <<fsVars, saveVars, trainVars, sbVars, mainVars, ueaVars, getDataVars>>

(***************************************************************************)
(* uea._pad and the padding of uea.get_data                                *)
(***************************************************************************)
\* the longest series of the model's input files
MaxLen == 3
\* the most samples of the model's train file
MaxTrain == 2

\* what a raised exception leaves in place of a value
Raised(e) == [ok |-> FALSE, error |-> e]
Value(x) == [ok |-> TRUE, value |-> x]

\* the value filled in place of the channel's last one
PadWithFirst(channel, n) ==
    IF Len(channel) = 0 THEN Raised("IndexError")
    ELSE IF Len(channel) > n THEN Raised("RuntimeError")
    ELSE Value([i \in 1..n |-> IF i <= Len(channel) THEN channel[i] ELSE channel[1]])

\* _pad(channel, maxlen): channel[-1] of an empty channel is an IndexError, and
\* 'out[:channel.size(0)] = channel' of a channel longer than out a RuntimeError
Pad(channel, n) ==
    IF Len(channel) = 0 THEN Raised("IndexError")
    ELSE IF Len(channel) > n THEN Raised("RuntimeError")
    ELSE Value([i \in 1..n |-> IF i <= Len(channel) THEN channel[i] ELSE channel[Len(channel)]])

\* lengths.max() of line 105
MaxOfLengths(lengths) ==
    CHOOSE m \in {lengths[i] : i \in DOMAIN lengths} : \A i \in DOMAIN lengths : lengths[i] <= m

GetDataIdle ==
    /\ gdPc = "idle"
    /\ amount_train = 0
    /\ raw_X = <<>>
    /\ maxlen = 0
    /\ all_X = <<>>
    /\ missing_rate = 0
    /\ missTrace = <<>>
    /\ raw_y = <<>>
    /\ all_y = <<>>
    /\ targets = <<>>
    /\ counter = 0
    /\ split = <<>>
    /\ datasets = <<>>

\* lines 95-102: the train and the test file read and concatenated
GetDataLoad(train_X, test_X) ==
    /\ gdPc = "idle"
    /\ gdPc' = "loaded"
    /\ amount_train' = Len(train_X)
    /\ raw_X' = train_X \o test_X
    /\ all_X' = train_X \o test_X
    /\ UNCHANGED maxlen

\* lines 104-105: the length of every sample, read off its first channel
GetDataMaxlen ==
    /\ gdPc = "loaded"
    /\ gdPc' = "padding"
    /\ maxlen' = MaxOfLengths([i \in DOMAIN all_X |-> Len(all_X[i][1])])
    /\ all_X' = <<>>
    /\ UNCHANGED <<amount_train, raw_X>>
    /\ UNCHANGED laterDataVars
    /\ UNCHANGED <<fsVars, saveVars, trainVars, sbVars, mainVars, ueaVars, evalVars>>

\* line 107: the channels of the next sample padded and stacked
GetDataPadSample ==
    /\ gdPc = "padding"
    /\ Len(all_X) < Len(raw_X)
    /\ LET sample == raw_X[Len(all_X) + 1]
           out == [c \in DOMAIN sample |-> Pad(sample[c], maxlen)]
           failed == {c \in DOMAIN sample : ~out[c].ok}
       IN  IF failed = {}
           THEN /\ all_X' = Append(all_X, [c \in DOMAIN sample |-> out[c].value])
                /\ gdPc' = IF Len(all_X) + 1 = Len(raw_X) THEN "padded" ELSE "padding"
           ELSE /\ gdPc' = out[CHOOSE c \in failed : \A d \in failed : c <= d].error
                /\ UNCHANGED all_X
    /\ UNCHANGED <<amount_train, raw_X, maxlen>>
    /\ UNCHANGED laterDataVars
    /\ UNCHANGED <<fsVars, saveVars, trainVars, sbVars, mainVars, ueaVars, evalVars>>

\* line 108: all_X.transpose(-1, -2), from (sample, channel, time) to (sample, time, channel)
GetDataTranspose ==
    /\ gdPc = "padded"
    /\ gdPc' = "transposed"
    /\ all_X' = [i \in DOMAIN all_X |->
                    [t \in 1..maxlen |-> [c \in DOMAIN all_X[i] |-> all_X[i][c][t]]]]
    /\ UNCHANGED <<amount_train, raw_X, maxlen>>
    /\ UNCHANGED laterDataVars
    /\ UNCHANGED <<fsVars, saveVars, trainVars, sbVars, mainVars, ueaVars, evalVars>>

(***************************************************************************)
(* The missingness step of uea.get_data (noise_channels = 0)               *)
(***************************************************************************)
RECURSIVE SortedSeq(_)
\* .sort().values of a set of points
SortedSeq(S) ==
    IF S = {} THEN <<>>
    ELSE LET m == CHOOSE x \in S : \A y \in S : x <= y
         IN  <<m>> \o SortedSeq(S \ {m})

Reverse(q) == [i \in 1..Len(q) |-> q[Len(q) + 1 - i]]

\* the point before each removed point, whether removed itself or not
PrevUnremovedNaive(removed_points) == [i \in 1..Len(removed_points) |-> removed_points[i] - 1]

RECURSIVE PrevScan(_, _, _, _, _)
\* lines 128-132, from the i'th removed point on
PrevScan(removed_points, i, prev_removed_point, prev_unremoved_point, out) ==
    IF i > Len(removed_points) THEN out
    ELSE LET removed_point == removed_points[i]
             unremoved == IF prev_removed_point /= removed_point - 1
                          THEN removed_point - 1
                          ELSE prev_unremoved_point
         IN  PrevScan(removed_points, i + 1, removed_point, unremoved, Append(out, unremoved))

\* lines 125-132: prev_unremoved_points, of a non-empty removed_points
PrevUnremovedPoints(removed_points) ==
    PrevScan(removed_points, 2, removed_points[1], removed_points[1] - 1,
             <<removed_points[1] - 1>>)

RECURSIVE NextScan(_, _, _, _, _)
\* lines 137-141, from the i'th removed point down
NextScan(removed_points, i, next_removed_point, next_unremoved_point, out) ==
    IF i < 1 THEN out
    ELSE LET removed_point == removed_points[i]
             unremoved == IF next_removed_point /= removed_point + 1
                          THEN removed_point + 1
                          ELSE next_unremoved_point
         IN  NextScan(removed_points, i - 1, removed_point, unremoved, Append(out, unremoved))

\* lines 134-142: next_unremoved_points, of a non-empty removed_points
NextUnremovedPoints(removed_points) ==
    LET last == removed_points[Len(removed_points)]
    IN  Reverse(NextScan(removed_points, Len(removed_points) - 1, last, last + 1, <<last + 1>>))

\* lines 147-153: the value written at removed_point; times[i] is i, and stream
\* holds the value of point i at position i + 1
Interpolated(stream, prev_unremoved_point, removed_point, next_unremoved_point) ==
    LET prev_stream == stream[prev_unremoved_point + 1]
        next_stream == stream[next_unremoved_point + 1]
    IN  prev_stream + ((removed_point - prev_unremoved_point) * (next_stream - prev_stream))
                          \div (next_unremoved_point - prev_unremoved_point)

RECURSIVE InterpolateFrom(_, _, _, _, _)
\* lines 143-153: the zip loop from its i'th triple on, writing into the stream
InterpolateFrom(stream, prevs, removed_points, nexts, i) ==
    IF i > Len(removed_points) THEN stream
    ELSE InterpolateFrom(
             [stream EXCEPT ![removed_points[i] + 1] =
                 Interpolated(stream, prevs[i], removed_points[i], nexts[i])],
             prevs, removed_points, nexts, i + 1)

\* line 123: int(all_X.size(1) * missing_rate)
NumToRemove(length, rate) == (length * rate) \div 100

\* how many points randperm[:n] holds, randperm being of length - 2 points
NumRemoved(length, rate) ==
    IF NumToRemove(length, rate) < length - 2 THEN NumToRemove(length, rate) ELSE length - 2

\* line 118: 'if missing_rate > 0'
GetDataMissingEnter ==
    /\ gdPc = "transposed"
    /\ gdPc' = IF missing_rate > 0 THEN "missing" ELSE "interpolated"
    /\ UNCHANGED <<amount_train, raw_X, maxlen, all_X, missing_rate, missTrace, raw_y, all_y,
                   targets, counter, split, datasets>>
    /\ UNCHANGED <<fsVars, saveVars, trainVars, sbVars, mainVars, ueaVars, evalVars>>

\* lines 120-153 for the next sample and channel, randperm[:n] being the points S
GetDataRemove(S) ==
    /\ gdPc = "missing"
    /\ LET channels == Len(all_X[1][1])
           batch_index == Len(missTrace) \div channels
           channel_index == Len(missTrace) % channels
           stream == [t \in 1..maxlen |-> all_X[batch_index + 1][t][channel_index + 1]]
           removed_points == SortedSeq(S)
       IN  IF maxlen - 2 < 0
           THEN gdPc' = "RuntimeError" /\ UNCHANGED <<all_X, missTrace>>
           ELSE IF removed_points = <<>>
           THEN gdPc' = "IndexError" /\ UNCHANGED <<all_X, missTrace>>
           ELSE LET prevs == PrevUnremovedPoints(removed_points)
                    nexts == NextUnremovedPoints(removed_points)
                    out == InterpolateFrom(stream, prevs, removed_points, nexts, 1)
                IN  /\ all_X' = [all_X EXCEPT ![batch_index + 1] =
                                    [t \in 1..maxlen |->
                                        [@[t] EXCEPT ![channel_index + 1] = out[t]]]]
                    /\ missTrace' = Append(missTrace,
                                           [batch_index |-> batch_index,
                                            channel_index |-> channel_index,
                                            stream |-> stream,
                                            removed_points |-> removed_points,
                                            prev_unremoved_points |-> prevs,
                                            next_unremoved_points |-> nexts])
                    /\ gdPc' = IF Len(missTrace) + 1 = Len(all_X) * channels
                               THEN "interpolated"
                               ELSE "missing"
    /\ UNCHANGED <<amount_train, raw_X, maxlen, missing_rate, raw_y, all_y, targets, counter,
                   split, datasets>>
    /\ UNCHANGED <<fsVars, saveVars, trainVars, sbVars, mainVars, ueaVars, evalVars>>

\* torch.randperm(all_X.size(1) - 2) + 1 shuffles the points 1 .. size - 2
GetDataRemoveAny ==
    /\ gdPc = "missing"
    /\ \E S \in SUBSET (1..(maxlen - 2)) :
          /\ Cardinality(S) = (IF maxlen - 2 < 0 THEN 0 ELSE NumRemoved(maxlen, missing_rate))
          /\ GetDataRemove(S)

(***************************************************************************)
(* Labels, split and normalisation of uea.get_data                         *)
(* A tensor of samples is a function from the position the sample had in   *)
(* all_X to the sample: the order within a split is the shuffle's and the  *)
(* dataloaders shuffle again.                                              *)
(***************************************************************************)
\* a key for every label from the i'th on, seen before or not
TargetsOfAll(y, i, keys) == keys \o [j \in 1..(Len(y) + 1 - i) |-> y[i + j - 1]]

RECURSIVE TargetsFrom(_, _, _)
\* lines 158-161 from the i'th label on: the keys of targets in insertion order
TargetsFrom(y, i, keys) ==
    IF i > Len(y) THEN keys
    ELSE TargetsFrom(y, i + 1,
                     IF \E j \in 1..Len(keys) : keys[j] = y[i] THEN keys ELSE Append(keys, y[i]))

\* targets[yi], given the keys in insertion order: counter at the insertion
TargetOf(keys, yi) == (CHOOSE j \in 1..Len(keys) : keys[j] = yi) - 1

\* lines 156-162
GetDataLabels ==
    /\ gdPc = "interpolated"
    /\ LET keys == TargetsFrom(raw_y, 1, <<>>)
       IN  /\ targets' = keys
           /\ counter' = Len(keys)
           /\ all_y' = [i \in 1..Len(raw_y) |-> TargetOf(keys, raw_y[i])]
    /\ gdPc' = "labelled"
    /\ UNCHANGED <<amount_train, raw_X, maxlen, all_X, missing_rate, missTrace, raw_y, split,
                   datasets>>
    /\ UNCHANGED <<fsVars, saveVars, trainVars, sbVars, mainVars, ueaVars, evalVars>>

\* the positions of the samples of class c among the first n of y
ClassMembers(y, n, c) == {i \in 1..n : y[i] = c}

\* the classes of the first n of y
ClassesOf(y, n) == {y[i] : i \in 1..n}

\* sklearn: n_train = floor(train_size * n_samples)
NumTrain(n) == (8 * n) \div 10

\* sklearn's _approximate_mode: the train counts per class that a stratified
\* draw of n_train out of the first n of y may give; the classes with the
\* largest remainders get the samples left over, ties at random
TrainCounts(y, n) ==
    LET classes == ClassesOf(y, n)
        count == [c \in classes |-> Cardinality(ClassMembers(y, n, c))]
        floored == [c \in classes |-> (count[c] * NumTrain(n)) \div n]
        remainder == [c \in classes |-> (count[c] * NumTrain(n)) % n]
        need_to_add == NumTrain(n) - SumOver(floored, classes)
    IN  {[c \in classes |-> floored[c] + (IF c \in E THEN 1 ELSE 0)] :
            E \in {F \in SUBSET classes :
                      /\ Cardinality(F) = need_to_add
                      /\ \A c \in F, d \in classes \ F : remainder[c] >= remainder[d]}}

\* train_test_split(train_size=0.8, shuffle=True, stratify=y) raises ValueError
SplitRaises(y, n) ==
    \/ NumTrain(n) = 0
    \/ \E c \in ClassesOf(y, n) : Cardinality(ClassMembers(y, n, c)) < 2
    \/ NumTrain(n) < Cardinality(ClassesOf(y, n))
    \/ n - NumTrain(n) < Cardinality(ClassesOf(y, n))

\* the sets of positions train_test_split may return as the train part
TrainSets(y, n) ==
    {T \in SUBSET (1..n) :
        \E n_i \in TrainCounts(y, n) :
            \A c \in ClassesOf(y, n) : Cardinality(T \cap ClassMembers(y, n, c)) = n_i[c]}

\* lines 165-172
GetDataSplit ==
    /\ gdPc = "labelled"
    /\ IF SplitRaises(all_y, amount_train)
       THEN gdPc' = "ValueError" /\ UNCHANGED split
       ELSE /\ \E T \in TrainSets(all_y, amount_train) :
                  split' = [train |-> T,
                            val |-> (1..amount_train) \ T,
                            test |-> (amount_train + 1)..Len(all_X)]
            /\ gdPc' = "split"
    /\ UNCHANGED <<amount_train, raw_X, maxlen, all_X, missing_rate, missTrace, raw_y, all_y,
                   targets, counter, datasets>>
    /\ UNCHANGED <<fsVars, saveVars, trainVars, sbVars, mainVars, ueaVars, evalVars>>

\* the samples of X at the positions P
Samples(X, P) == [i \in P |-> X[i]]

\* what mean() and std() of channel c of train_X are computed from: the number
\* of its values, their sum and the sum of their squares
Statistics(train_X, c) ==
    LET points == {<<i, t>> : i \in DOMAIN train_X, t \in 1..maxlen}
        value == [q \in points |-> train_X[q[1]][q[2]][c]]
        square == [q \in points |-> train_X[q[1]][q[2]][c] * train_X[q[1]][q[2]][c]]
    IN  [count |-> Cardinality(points),
         sum |-> SumOver(value, points),
         squares |-> SumOver(square, points)]

\* every channel of X by the statistics of X itself
NormaliseByItself(X, train_X) ==
    [i \in DOMAIN X |->
        [t \in DOMAIN X[i] |->
            [c \in DOMAIN X[i][t] |-> [value |-> X[i][t][c], by |-> Statistics(X, c)]]]]

\* common.normalise_data: (Xi - mean) / (1e-5 + std) is kept as the value and
\* the statistics that mean and std come from
normalise_data(X, train_X) ==
    [i \in DOMAIN X |->
        [t \in DOMAIN X[i] |->
            [c \in DOMAIN X[i][t] |-> [value |-> X[i][t][c], by |-> Statistics(train_X, c)]]]]

\* lines 174-187
GetDataNormalise ==
    /\ gdPc = "split"
    /\ LET train_X == Samples(all_X, split.train)
           val_X == normalise_data(Samples(all_X, split.val), train_X)
           test_X == normalise_data(Samples(all_X, split.test), train_X)
           train_X_normalised == normalise_data(train_X, train_X)
       IN  datasets' = [train |-> [X |-> train_X_normalised, y |-> Samples(all_y, split.train)],
                        val |-> [X |-> val_X, y |-> Samples(all_y, split.val)],
                        test |-> [X |-> test_X, y |-> Samples(all_y, split.test)],
                        num_classes |-> counter]
    /\ gdPc' = "normalised"
    /\ UNCHANGED <<amount_train, raw_X, maxlen, all_X, missing_rate, missTrace, raw_y, all_y,
                   targets, counter, split>>
    /\ UNCHANGED <<fsVars, saveVars, trainVars, sbVars, mainVars, ueaVars, evalVars>>

\* lines 189-191
GetDataReturn ==
    /\ gdPc = "normalised"
    /\ gdPc' = IF datasets.num_classes >= 2 THEN "returned" ELSE "AssertionError"
    /\ UNCHANGED <<amount_train, raw_X, maxlen, all_X, missing_rate, missTrace, raw_y, all_y,
                   targets, counter, split, datasets>>
    /\ UNCHANGED <<fsVars, saveVars, trainVars, sbVars, mainVars, ueaVars, evalVars>>

(***************************************************************************)
(* uea.main                                                                *)
(***************************************************************************)
valid_dataset_names ==
    {"ArticularyWordRecognition", "FaceDetection", "NATOPS", "AtrialFibrillation",
     "FingerMovements", "PEMS-SF", "BasicMotions", "HandMovementDirection", "PenDigits",
     "MotorImagery", "EigenWorms"}

\* the parameters of common.main, none of them with a default
MainParameters ==
    <<"times", "train_dataloader", "val_dataloader", "test_dataloader", "num_classes",
      "input_channels", "result_folder", "result_subfolder", "epochs",
      "num_shapelets_per_class", "num_shapelet_samples", "discrepancy_fn",
      "max_shapelet_length_proportion", "lengths_per_shapelet", "num_continuous_samples",
      "ablation_pseudometric", "ablation_learntlengths", "ablation_similarreg",
      "old_shapelets">>

\* the positional arguments uea.main passes to common.main, by the names uea.main
\* has for them
MainCallArguments ==
    <<"times", "train_dataloader", "val_dataloader", "test_dataloader", "num_classes",
      "input_channels", "result_folder", "result_subfolder", "epochs",
      "num_shapelets_per_class", "num_shapelet_samples", "discrepancy_fn",
      "max_shapelet_length_proportion", "lengths_per_shapelet", "num_continuous_samples",
      "metric_type", "ablation_pseudometric", "ablation_learntlengths",
      "ablation_similarreg", "old_shapelets", "lr", "plateau_patience",
      "plateau_terminate", "initialisation">>

\* Python binds positional arguments to parameters without defaults only when
\* there is exactly one argument per parameter; otherwise the call is a TypeError
Binds(arguments, parameters) == Len(arguments) = Len(parameters)

UeaIdle ==
    /\ ueaPc = "idle"
    /\ ueaArgs = <<>>

DataIdle == UeaIdle /\ GetDataIdle /\ EvalIdle

\* uea.main is called
UeaEnter(a) ==
    /\ ueaPc = "idle"
    /\ ueaPc' = "get_data"
    /\ ueaArgs' = a
    /\ UNCHANGED <<fsVars, saveVars, trainVars, sbVars, mainVars, getDataVars, evalVars>>

\* lines 217-219: get_data, which asserts the dataset name and loads the data
UeaGetData ==
    /\ ueaPc = "get_data"
    /\ ueaPc' = IF ueaArgs.dataset_name \in valid_dataset_names
                THEN "data_loaded"
                ELSE "AssertionError"
    /\ UNCHANGED ueaArgs
    /\ UNCHANGED <<fsVars, saveVars, trainVars, sbVars, mainVars, getDataVars, evalVars>>

\* lines 221-244: the call of common.main
UeaCallMain ==
    /\ ueaPc = "data_loaded"
    /\ ueaPc' = IF Binds(MainCallArguments, MainParameters) THEN "in_main" ELSE "TypeError"
    /\ UNCHANGED ueaArgs
    /\ UNCHANGED <<fsVars, saveVars, trainVars, sbVars, mainVars, getDataVars, evalVars>>

\* one run after another saves its results into the same subfolder
SaveCall ==
    /\ ncalls < MaxCalls
    /\ save_results(RunResults(ncalls))
    /\ UNCHANGED <<trainVars, sbVars, mainVars, dataVars>>

\* the subfolder as a run may find it: absent, empty, or holding one or two files
\* with names among the given ones
InitFs(names) ==
    /\ \E present \in {{}} \cup {{a, b} : a, b \in names} :
          files = [f \in present |-> OldContent]
    /\ dirs \in {{}, {"results"}, {"results", "base"}, {"results", "base", "loc"}}
    /\ files /= <<>> => "loc" \in dirs

InitSave ==
    /\ InitFs(Filenames)
    /\ files0 = files
    /\ ncalls = 0
    /\ lastSave = NoSave
    /\ TrainIdle
    /\ SbIdle
    /\ MainIdle
    /\ DataIdle

NextSave == SaveCall

SpecSave == InitSave /\ [][NextSave]_vars

(***************************************************************************)
(* Claims about save_results (checked under SpecSave).                     *)
(***************************************************************************)
ParsedValues(fs) == {IntOf(f) : f \in {g \in DOMAIN fs : IntParsable(g)}}

SetMax(S) == CHOOSE m \in S : \A x \in S : x <= m

NewFiles == (DOMAIN files) \ (DOMAIN lastSave.before)

\* C1 as stated: a call (one that returns) writes exactly one new file, named
\* (largest integer-parsable filename) + 1, or '0' when no filename parses as an
\* integer.
C1_AsStated ==
    lastSave.outcome = "returned" =>
        LET P == ParsedValues(lastSave.before)
        IN  NewFiles = {IF P = {} THEN <<"0">> ELSE IntToStr(SetMax(P) + 1)}

\* C1 (amended): a save_results call fails, writing nothing, exactly when neither
\* here/results nor the result folder exists; every other call returns having
\* written exactly one new file, whose name is the decimal form of
\* max(-1, largest integer-parsable filename) + 1, that is '0' when no filename
\* parses to a non-negative integer; filenames that do not parse are ignored.
C1_SaveWritesNextNumber ==
    /\ lastSave.outcome = "FileNotFoundError" =>
          /\ lastSave.dirsBefore \cap {"results", "base"} = {}
          /\ files = lastSave.before
    /\ lastSave.outcome = "returned" =>
          /\ lastSave.dirsBefore \cap {"results", "base"} /= {}
          /\ LET P == ParsedValues(lastSave.before) \cap Nat
             IN  NewFiles = {IF P = {} THEN <<"0">> ELSE IntToStr(SetMax(P) + 1)}
          /\ NewFiles = {lastSave.name}

\* a call that found '9', a negative number and a name that is no integer wrote '10'
C1_Witness ==
    /\ lastSave.outcome = "returned"
    /\ \E f \in DOMAIN lastSave.before : IntParsable(f) /\ IntOf(f) = 9
    /\ \E f \in DOMAIN lastSave.before : ~IntParsable(f)
    /\ lastSave.name = <<"1", "0">>
    /\ <<"1", "0">> \in DOMAIN files

\* C2: sequential save_results calls never overwrite: the files a call found, and
\* the files present before the first call, are all still there with their
\* content; and from an empty subfolder n calls leave exactly '0' .. 'n-1'.
C2_NoOverwrite ==
    /\ \A f \in DOMAIN lastSave.before :
          f \in DOMAIN files /\ files[f] = lastSave.before[f]
    /\ \A f \in DOMAIN files0 : f \in DOMAIN files /\ files[f] = files0[f]
    /\ (files0 = <<>> /\ "results" \in dirs) =>
          DOMAIN files = {<<DigitChar(i)>> : i \in 0..(ncalls - 1)}

\* two calls into an empty subfolder left '0' and '1', each with its own run's record
C2_Witness ==
    /\ files0 = <<>>
    /\ ncalls = 2
    /\ DOMAIN files = {<<"0">>, <<"1">>}
    /\ files[<<"0">>] /= files[<<"1">>]

(***************************************************************************)
(* _train_loop called on its own.                                          *)
(***************************************************************************)
SaveIdle ==
    /\ dirs = {"results"}
    /\ files = <<>>
    /\ files0 = <<>>
    /\ ncalls = 0
    /\ lastSave = NoSave

InitTrain == SaveIdle /\ TrainIdle /\ SbIdle /\ MainIdle /\ DataIdle

\* a call with any epochs up to MaxEpochs, over a dataloader of 1..MaxBatches batches
TrainCall ==
    /\ \E e \in 0..MaxEpochs, nb \in 1..MaxBatches : TrainLoopEnter(e, nb)
    /\ UNCHANGED notTrainVars

NextTrain == TrainCall \/ LoopHead \/ TrainBatch \/ EndOfBatches \/ Evaluate \/ RestoreBest

SpecTrain == InitTrain /\ [][NextTrain]_vars

\* runs long enough for the early termination, the validation accuracy constant
LongEpochs == {52, 62, 75}

TrainCallLong ==
    /\ \E e \in LongEpochs : TrainLoopEnter(e, 1)
    /\ UNCHANGED notTrainVars

NextTrainLong ==
    TrainCallLong \/ LoopHead \/ TrainBatch \/ EndOfBatches \/ EvaluateFlat \/ RestoreBest

SpecTrainLong == InitTrain /\ [][NextTrainLong]_vars

(***************************************************************************)
(* Claims about _train_loop.                                               *)
(***************************************************************************)
Evals == 1..Len(history)

\* the largest validation accuracy of the evaluations before the k'th (-1: none)
BestValBefore(k) ==
    IF k = 1 THEN -1
    ELSE LET S == {history[i].val_accuracy : i \in 1..(k - 1)}
         IN  CHOOSE m \in S : \A x \in S : x <= m

\* C4: when _train_loop returns, the model holds the parameters it had at a
\* metrics evaluation whose validation accuracy is the largest of all the
\* evaluations of the call (with no evaluation, the parameters are untouched).
C4_BestCheckpointRetained ==
    trainPc = "returned" =>
        IF history = <<>> THEN model = nsteps
        ELSE \E k \in Evals :
                /\ model = evalTrace[k].params
                /\ \A j \in Evals : history[j].val_accuracy <= history[k].val_accuracy

\* a call returned with the parameters of an earlier evaluation, the best one, and
\* not those of the last epoch
C4_Witness ==
    /\ trainPc = "returned"
    /\ Len(history) >= 3
    /\ model = evalTrace[2].params
    /\ model < nsteps
    /\ history[2].val_accuracy > history[1].val_accuracy
    /\ history[2].val_accuracy > history[Len(history)].val_accuracy

\* C5 as stated: the loop breaks exactly 50 epochs after best_epoch.
C5_AsStated ==
    \A k \in Evals :
        evalTrace[k].broke => history[k].epoch = evalTrace[k].best_epoch + plateau_terminate

\* C5 (amended): the loop breaks at the first evaluated epoch that is more than 50
\* epochs after best_epoch, which is best_epoch + 60 or, when that comes first, the
\* last epoch epochs - 1; best_epoch is an evaluated epoch whose training loss no
\* evaluation has improved on (by the factor 1.0001) since; and after the break
\* no batch is trained and nothing more is evaluated.
C5_TerminatesAfterFifty ==
    \A k \in Evals :
        evalTrace[k].broke =>
            LET e == history[k].epoch
                b == evalTrace[k].best_epoch
            IN  /\ e > b + plateau_terminate
                /\ e = b + plateau_terminate + epoch_per_metric \/ e = epochs - 1
                /\ e <= b + plateau_terminate + epoch_per_metric
                /\ \A j \in 1..(k - 1) : ~evalTrace[j].broke
                /\ \E i \in 1..(k - 1) :
                      /\ history[i].epoch = b
                      /\ \A j \in Evals :
                            ~(history[j].train_loss * 10001 < history[i].train_loss * 10000)
                /\ k = Len(history)
                /\ nsteps = evalTrace[k].nsteps
                /\ breaking
                /\ trainPc \in {"epoch", "restore", "returned"}

\* a call of 75 epochs broke at epoch 70, 60 epochs after the last improvement at
\* epoch 10, and returned without training further
C5_Witness ==
    /\ trainPc = "returned"
    /\ epochs = 75
    /\ history /= <<>>
    /\ evalTrace[Len(history)].broke
    /\ history[Len(history)].epoch = 70
    /\ best_epoch = 10
    /\ nsteps = 71

\* the epoch values of the history so far
HistoryEpochs == {history[k].epoch : k \in Evals}

\* C15: metrics are evaluated after exactly those executed epochs e with
\* e % 10 = 0 or e = epochs - 1, one history entry each and in increasing order of
\* epoch; every executed epoch trains every batch of the dataloader; and when the
\* loop returns, the history is non-empty if epochs >= 1 and its last entry is for
\* the last epoch trained, which is epochs - 1 unless the loop broke early.
C15_MetricsSchedule ==
    /\ trainPc \in {"epoch", "restore", "returned"} =>
          /\ HistoryEpochs = {e \in 0..(epoch - 1) : e % 10 = 0 \/ e = epochs - 1}
          /\ nsteps = epoch * numBatches
    /\ Len(evalTrace) = Len(history)
    /\ \A k \in Evals : \A j \in Evals : j < k => history[j].epoch < history[k].epoch
    /\ trainPc = "returned" =>
          /\ epochs >= 1 => history /= <<>>
          /\ history /= <<>> =>
                /\ history[Len(history)].epoch = epoch - 1
                /\ epoch = epochs \/ evalTrace[Len(history)].broke
                /\ (\A k \in Evals : ~evalTrace[k].broke) => epoch = epochs

\* a call of 62 epochs that did not break returned a history for the epochs
\* 0, 10, ..., 60 and 61
C15_Witness ==
    /\ trainPc = "returned"
    /\ epochs = 62
    /\ Len(history) = 8
    /\ history[7].epoch = 60
    /\ history[8].epoch = 61
    /\ ~evalTrace[8].broke
    /\ nsteps = 62 * numBatches

\* C6 (as stated): the scheduler is stepped once per metrics evaluation with that
\* evaluation's validation accuracy, the learning rate never increases, and it
\* is decreased only after the validation accuracy has failed to improve at more
\* than plateau_patience consecutive evaluations, hence more than 10 epochs.
C6_AsStated ==
    /\ Len(evalTrace) = Len(history)
    /\ \A k \in Evals :
          /\ evalTrace[k].stepped = history[k].val_accuracy
          /\ evalTrace[k].lrAfter <= evalTrace[k].lrBefore
          /\ evalTrace[k].lrAfter < evalTrace[k].lrBefore =>
                /\ k > plateau_patience + 1
                /\ \A j \in (k - plateau_patience)..k :
                      history[j].val_accuracy <= BestValBefore(j)
                /\ history[k].epoch - history[k - plateau_patience - 1].epoch
                      > plateau_patience * epoch_per_metric

RECURSIVE ReferenceBefore(_)
\* the validation accuracy of the last evaluation before the k'th that counted as
\* an improvement (-1: none): an evaluation counts when its accuracy is more than
\* 1.0001 times the reference before it, and the first one always counts
ReferenceBefore(k) ==
    IF k = 1 THEN -1
    ELSE LET r == ReferenceBefore(k - 1)
             a == history[k - 1].val_accuracy
         IN  IF r = -1 \/ a * 10000 > r * 10001 THEN a ELSE r

Counts(k) ==
    \/ ReferenceBefore(k) = -1
    \/ history[k].val_accuracy * 10000 > ReferenceBefore(k) * 10001

\* C6 (amended): the scheduler is stepped once per metrics evaluation with that
\* evaluation's validation accuracy and the learning rate never increases; an
\* evaluation counts as an improvement only when its accuracy exceeds the
\* accuracy of the last evaluation that counted by more than the relative
\* threshold 1e-4 (the first always counts); the learning rate is decreased only
\* at an evaluation that, with the plateau_patience evaluations before it, did not
\* count, after one that did, which is more than 10 epochs back; it is then a
\* tenth of what it was; and a smaller improvement does not prevent the decrease.
C6_LrOnPlateau ==
    /\ Len(evalTrace) = Len(history)
    /\ lr = IF history = <<>> THEN InitialLr ELSE evalTrace[Len(history)].lrAfter
    /\ history /= <<>> => scheduler.best = ReferenceBefore(Len(history) + 1)
    /\ \A k \in Evals :
          /\ evalTrace[k].stepped = history[k].val_accuracy
          /\ evalTrace[k].lrBefore = IF k = 1 THEN InitialLr ELSE evalTrace[k - 1].lrAfter
          /\ evalTrace[k].lrAfter <= evalTrace[k].lrBefore
          /\ evalTrace[k].lrAfter < evalTrace[k].lrBefore =>
                /\ k > plateau_patience + 1
                /\ evalTrace[k].lrAfter * 10 = evalTrace[k].lrBefore
                /\ \A j \in (k - plateau_patience)..k : ~Counts(j)
                /\ \E m \in 1..(k - plateau_patience - 1) :
                      /\ Counts(m)
                      /\ \A j \in (m + 1)..k : ~Counts(j)
                      /\ history[k].epoch - history[m].epoch > plateau_patience * epoch_per_metric

\* a call of 12 epochs, evaluated at epochs 0, 10 and 11, lowered the learning
\* rate at epoch 11 although the accuracy rose at both epoch 10 and epoch 11, by
\* less than the threshold
C6_Witness ==
    /\ trainPc = "returned"
    /\ epochs = 12
    /\ Len(history) = 3
    /\ history[3].epoch = 11
    /\ history[1].val_accuracy = 50000
    /\ history[2].val_accuracy = 50002
    /\ history[3].val_accuracy = 50004
    /\ evalTrace[3].lrAfter < evalTrace[3].lrBefore
    /\ lr * 10 = InitialLr

(***************************************************************************)
(* _get_sample_batch as main calls it (lines 368 and 390).                 *)
(***************************************************************************)
\* small datasets, and one a little larger than a batch: 2048 samples of class 0
\* and a single sample of class 1
SmallDatasets == {ds \in [Classes -> 0..MaxCount] : Size(ds) > 0}
LargeDataset == [c \in Classes |-> IF c = 0 THEN BatchSize ELSE IF c = 1 THEN 1 ELSE 0]

InitSampleBatch == SaveIdle /\ TrainIdle /\ SbIdle /\ MainIdle /\ DataIdle

\* the labels of a dataset are among 0 .. num_classes - 1, as get_data numbers them
LabelsWithin(ds, nc) == \A c \in Classes : c >= nc => ds[c] = 0

SampleBatchCall ==
    /\ sbPc = "idle"
    /\ \E ds \in SmallDatasets \cup {LargeDataset}, nc \in 2..MaxClasses, per \in 0..MaxPerClass :
          /\ LabelsWithin(ds, nc)
          /\ SampleBatchEnter(ds, nc, per, per * nc)
    /\ UNCHANGED notSbVars

NextSampleBatch == SampleBatchCall \/ SamplePassStart \/ SampleStep \/ SamplePassEnd

SpecSampleBatch == InitSampleBatch /\ [][NextSampleBatch]_vars

\* C7 as stated (for num_shapelets_per_class >= 1): the 'Could not get a sample
\* batch' RuntimeError is raised exactly when the training data lacks one of the
\* num_classes classes, never when every class is present, and no other error is
\* raised.
C7_AsStated ==
    LET lacking == \E c \in 0..(num_classes - 1) : dataset[c] = 0
    IN  num_shapelets_per_class >= 1 =>
            /\ sbPc /= "StackError"
            /\ sbPc = "RuntimeError" => lacking
            /\ sbPc = "returned" => ~lacking

(***************************************************************************)
(* _get_sample_batch called with any dataloader and any counts.            *)
(***************************************************************************)
\* a dataloader that yields nothing
EmptyDataset == [c \in Classes |-> 0]

\* the call with num_shapelets chosen freely of num_shapelets_per_class
SampleBatchCallAny ==
    /\ sbPc = "idle"
    /\ \E ds \in SmallDatasets \cup {EmptyDataset, LargeDataset}, per \in 0..MaxPerClass,
          total \in 0..(MaxPerClass * MaxClasses) :
          SampleBatchEnter(ds, MaxClasses, per, total)
    /\ UNCHANGED notSbVars

NextSampleBatchAny == SampleBatchCallAny \/ SamplePassStart \/ SampleStep \/ SamplePassEnd

\* the function runs on whenever it can; and a shuffled pass does not leave out
\* the samples of one class for ever
SampleBatchFairness ==
    /\ WF_vars(SamplePassStart \/ SampleStep \/ SamplePassEnd)
    /\ \A yi \in Classes : SF_vars(SampleNext(yi))

SpecSampleBatchFair == InitSampleBatch /\ [][NextSampleBatchAny]_vars /\ SampleBatchFairness

\* C14 (as stated): every call of _get_sample_batch, whatever the dataloader (an
\* empty one included) and the counts, eventually returns a batch or raises.
C14_AsStated == (sbPc = "pass_start") ~> (sbPc \in {"returned", "RuntimeError", "StackError"})

\* the classes that have samples in the data
ClassesPresent == {c \in Classes : dataset[c] > 0}

\* C13: whenever _get_sample_batch returns, the batch holds exactly num_shapelets
\* samples, all of them of classes of the data, no class contributes more than
\* num_shapelets_per_class of them, and when the data has exactly
\* num_shapelets / num_shapelets_per_class classes every class contributes
\* exactly num_shapelets_per_class samples.
C13_SampleBatchShape ==
    sbPc = "returned" =>
        /\ Size(batch_elems) = num_shapelets
        /\ \A c \in Classes :
              /\ batch_elems[c] <= num_shapelets_per_class
              /\ batch_elems[c] > 0 => c \in ClassesPresent
              /\ batch_elems[c] = IF c \in DOMAIN y_seen THEN y_seen[c] ELSE 0
        /\ Cardinality(ClassesPresent) * num_shapelets_per_class = num_shapelets =>
              \A c \in ClassesPresent : batch_elems[c] = num_shapelets_per_class

\* a batch of two samples per class was returned from data with one sample of
\* class 1, which a second pass supplied again
C13_Witness ==
    /\ sbPc = "returned"
    /\ num_shapelets_per_class = 2
    /\ num_classes = 2
    /\ dataset[0] = 2
    /\ dataset[1] = 1
    /\ batch_elems[0] = 2
    /\ batch_elems[1] = 2

(***************************************************************************)
(* A whole run of common.main.                                             *)
(***************************************************************************)
\* two small training datasets: one of both classes, one of class 0 only
MainDatasets ==
    {[c \in Classes |-> IF c < 2 THEN 1 ELSE 0], [c \in Classes |-> IF c = 0 THEN 2 ELSE 0]}

\* the final metrics of the train, validation and test data
FinalMetrics ==
    {<<[loss |-> 5000, accuracy |-> 10000], [loss |-> 10000, accuracy |-> 5000],
       [loss |-> 10001, accuracy |-> 5000]>>,
     <<[loss |-> 10000, accuracy |-> 5000], [loss |-> 10000, accuracy |-> 0],
       [loss |-> 10000, accuracy |-> 10000]>>}

\* (ablation_pseudometric, ablation_learntlengths, ablation_similarreg)
AblationChoices == {<<TRUE, TRUE, TRUE>>, <<FALSE, TRUE, FALSE>>, <<TRUE, FALSE, TRUE>>}

\* (num_shapelet_samples, max_shapelet_length_proportion), the latter in hundredths
SizeChoices == {<<Null, Null>>, <<Null, Some(100)>>, <<Some(4), Some(50)>>}

MainArgChoices ==
    {[T |-> t,
      dataset |-> ds,
      num_classes |-> 2,
      result_folder |-> rf,
      epochs |-> e,
      num_shapelets_per_class |-> per,
      num_shapelet_samples |-> sz[1],
      discrepancy_fn |-> "L2",
      max_shapelet_length_proportion |-> sz[2],
      ablation_pseudometric |-> ab[1],
      ablation_learntlengths |-> ab[2],
      ablation_similarreg |-> ab[3],
      old_shapelets |-> old] :
        t \in {3, 41}, ds \in MainDatasets, rf \in {"None", "uea_comparison"},
        e \in 0..MaxMainEpochs, per \in {1, MaxPerClass}, sz \in SizeChoices,
        ab \in AblationChoices, old \in BOOLEAN}

InitMain ==
    /\ InitFs({<<"0">>})
    /\ files0 = files
    /\ ncalls = 0
    /\ lastSave = NoSave
    /\ TrainIdle
    /\ SbIdle
    /\ MainIdle
    /\ DataIdle

MainCall == mainPc = "idle" /\ \E a \in MainArgChoices : MainEnter(a)

MainEvaluateModel == \E m \in FinalMetrics : MainEvaluate(m[1], m[2], m[3])

NextMain ==
    \/ MainCall
    \/ MainConstruct
    \/ MainSampleBatch
    \/ SamplePassStart
    \/ SampleStep
    \/ SamplePassEnd
    \/ MainSampleBatchRaises
    \/ MainSetShapelets
    \/ MainTrain
    \/ LoopHead
    \/ TrainBatch
    \/ EndOfBatches
    \/ EvaluateFlat
    \/ RestoreBest
    \/ MainTrainReturns
    \/ MainEvaluateModel
    \/ MainSave
    \/ MainReturn

SpecMain == InitMain /\ [][NextMain]_vars

(***************************************************************************)
(* Claims about common.main (checked under SpecMain).                      *)
(***************************************************************************)
HyperparameterKeys ==
    {"num_shapelets_per_class", "num_shapelet_samples", "max_shapelet_length_proportion",
     "ablation_pseudometric", "ablation_learntlengths", "ablation_similarreg", "old_shapelets"}

MetricKeys == {"train_metrics", "val_metrics", "test_metrics"}

\* C3: the record save_results writes for a run of main holds the run's
\* hyperparameters (as the run used them), the metric history and the train,
\* validation and test metrics, the model as its string representation, and none
\* of the three dataloader entries (which the returned results object keeps).
C3_SavedRecord ==
    (mainPc /= "idle" /\ lastSave.outcome \notin {"none", "FileNotFoundError"}) =>
        /\ lastSave.outcome = "returned"
        /\ lastSave.name \in DOMAIN files
        /\ LET rec == files[lastSave.name]
           IN  /\ HyperparameterKeys \cup MetricKeys \cup {"history", "model"} \subseteq DOMAIN rec
               /\ DataloaderKeys \cap DOMAIN rec = {}
               /\ DataloaderKeys \subseteq DOMAIN results
               /\ results["model"].type = "Module"
               /\ rec["model"] = [type |-> "str", v |-> results["model"].v]
               /\ rec["history"].v = history
               /\ \A k \in MetricKeys : rec[k] = results[k]
               /\ rec["num_shapelets_per_class"].v = args.num_shapelets_per_class
               /\ rec["old_shapelets"].v = args.old_shapelets
               /\ rec["num_shapelet_samples"].v = hp.num_shapelet_samples
               /\ rec["max_shapelet_length_proportion"].v = hp.max_shapelet_length_proportion.v
               /\ rec["ablation_pseudometric"].v = hp.ablation_pseudometric
               /\ rec["ablation_learntlengths"].v = hp.ablation_learntlengths
               /\ rec["ablation_similarreg"].v = hp.ablation_similarreg
               /\ \A k \in DOMAIN rec : rec[k].type \notin {"Tensor", "Module", "DataLoader"}

\* an old_shapelets run of one epoch saved its record as file '1', beside the '0'
\* that was there, with the overridden hyperparameters and a history of one entry
C3_Witness ==
    /\ mainPc = "returned"
    /\ args.old_shapelets
    /\ args.ablation_pseudometric
    /\ lastSave.outcome = "returned"
    /\ lastSave.name = <<"1">>
    /\ files[<<"1">>]["ablation_pseudometric"].v = FALSE
    /\ files[<<"1">>]["max_shapelet_length_proportion"].v = 30
    /\ Len(files[<<"1">>]["history"].v) = 1

IsPrefix(p, q) == Len(p) <= Len(q) /\ \A i \in 1..Len(p) : p[i] = q[i]

\* C8: a call of main goes through its stages in the order model construction,
\* shapelet initialisation from a sample batch, training loop, evaluation, result
\* persistence, return; save_results is called at most once, only after the
\* evaluation and only when result_folder is not None; and a call that returns
\* returns the results object, whether it saved it or not.
C8_StageOrder ==
    /\ mainPc /= "idle" =>
          IsPrefix(stages, IF args.result_folder = "None"
                           THEN <<"model", "sample_batch", "train", "evaluate", "return">>
                           ELSE <<"model", "sample_batch", "train", "evaluate", "save", "return">>)
    /\ sbPc /= "idle" => Len(stages) >= 1
    /\ Len(stages) >= 2 => sbPc = "returned"
    /\ trainPc /= "idle" => Len(stages) >= 2
    /\ Len(stages) >= 3 => trainPc = "returned"
    /\ results /= Null <=> Len(stages) >= 4
    /\ ncalls <= 1
    /\ ncalls = 1 => (Len(stages) >= 4 /\ args.result_folder /= "None")
    /\ mainPc = "returned" =>
          /\ returned = results
          /\ returned /= Null
          /\ ncalls = 1 <=> args.result_folder /= "None"
          /\ ncalls = 1 => lastSave.outcome = "returned"

\* one call returned its results after saving them, another without saving
C8_Witness ==
    /\ mainPc = "returned"
    /\ returned = results
    /\ DataloaderKeys \subseteq DOMAIN returned
    /\ ncalls = 1
    /\ stages = <<"model", "sample_batch", "train", "evaluate", "save", "return">>
    /\ Len(history) = 1

(***************************************************************************)
(* A call of uea.main.                                                     *)
(***************************************************************************)
\* learning rates in units of 1e-10
UeaArgChoices ==
    [dataset_name : {"BasicMotions", "PenDigits", "CharacterTrajectories"},
     result_folder : {"None", "uea_comparison"},
     metric_type : {"general", "diagonal"},
     lr : {InitialLr, 10000000},
     plateau_patience : {1, 10},
     plateau_terminate : {50, 250},
     initialisation : {"old", "kmeans"}]

InitUea == SaveIdle /\ TrainIdle /\ SbIdle /\ MainIdle /\ DataIdle

UeaCall == ueaPc = "idle" /\ \E a \in UeaArgChoices : UeaEnter(a)

NextUea == UeaCall \/ UeaGetData \/ UeaCallMain

SpecUea == InitUea /\ [][NextUea]_vars

Ramp(start, n) == [i \in 1..n |-> start + i - 1]

\* samples of two channels; the second is as long as the first, or empty, or of
\* the greatest length
SampleChoices ==
    UNION {{<<Ramp(10, n), Ramp(20, m)>> : m \in {n, 0, MaxLen}} : n \in 0..MaxLen}

RECURSIVE SeqsOfLen(_, _)
SeqsOfLen(S, n) ==
    IF n = 0 THEN {<<>>}
    ELSE {Append(q, x) : q \in SeqsOfLen(S, n - 1), x \in S}

InitPad == SaveIdle /\ TrainIdle /\ SbIdle /\ MainIdle /\ DataIdle

GetDataCall ==
    /\ gdPc = "idle"
    /\ \E n \in 1..MaxTrain :
          \E train_X \in SeqsOfLen(SampleChoices, n), test_X \in SeqsOfLen(SampleChoices, 1) :
              GetDataLoad(train_X, test_X)
    /\ UNCHANGED laterDataVars
    /\ UNCHANGED <<fsVars, saveVars, trainVars, sbVars, mainVars, ueaVars, evalVars>>

NextPad == GetDataCall \/ GetDataMaxlen \/ GetDataPadSample \/ GetDataTranspose

SpecPad == InitPad /\ [][NextPad]_vars

ChannelLengths == {Len(raw_X[i][c]) : i \in DOMAIN raw_X, c \in 1..2}

\* C10: once get_data has padded the data, every sample of the train and the test
\* file is there with every channel, all of one length, the greatest length of a
\* channel over train and test together; a channel's values are unchanged at the
\* positions below its length, and its own last value fills the positions from
\* its length on.
C10_Padding ==
    gdPc = "transposed" =>
        /\ Len(all_X) = Len(raw_X)
        /\ \A n \in ChannelLengths : n <= maxlen
        /\ maxlen \in ChannelLengths
        /\ \A i \in DOMAIN raw_X :
              /\ Len(all_X[i]) = maxlen
              /\ \A t \in 1..maxlen :
                    /\ DOMAIN all_X[i][t] = DOMAIN raw_X[i]
                    /\ \A c \in DOMAIN raw_X[i] :
                          LET channel == raw_X[i][c]
                          IN  all_X[i][t][c] =
                                 IF t <= Len(channel) THEN channel[t] ELSE channel[Len(channel)]

\* a test sample longer than both train samples set the length, and a train
\* channel of two values was extended by its last one
C10_Witness ==
    /\ gdPc = "transposed"
    /\ amount_train = 2
    /\ Len(raw_X[1][2]) = 2
    /\ Len(raw_X[2][1]) = 1
    /\ Len(raw_X[3][1]) = 3
    /\ maxlen = 3
    /\ all_X[1][3][2] = raw_X[1][2][2]
    /\ all_X[1][1][2] /= all_X[1][3][2]

(***************************************************************************)
(* _evaluate_metrics over the loaders get_data builds.                     *)
(***************************************************************************)
InitEval == SaveIdle /\ TrainIdle /\ SbIdle /\ MainIdle /\ DataIdle

\* a dataloader as get_data builds it (batch_size=2048), or one of batches of two
EvalCall ==
    /\ evPc = "idle"
    /\ \E ds \in SmallDatasets \cup {EmptyDataset, LargeDataset}, batch_size \in {2, BatchSize} :
          EvalEnter(ds, batch_size)
    /\ UNCHANGED <<fsVars, saveVars, trainVars, sbVars, mainVars, ueaVars, getDataVars>>

NextEval == EvalCall \/ EvalDrawAny \/ EvalBatch \/ EvalFinish

SpecEval == InitEval /\ [][NextEval]_vars

\* C18 (as stated): for a dataloader built with batch_size=2048, as get_data
\* builds its loaders, the loss and accuracy _evaluate_metrics reports are the
\* averages over every sample of the dataset, each counted once, and
\* total_dataset_size is the size of the dataset, not zero for a non-empty one.
C18_AsStated ==
    (evPc = "returned"
        /\ evBatchSize = IF BatchSize < Size(evDataset) THEN BatchSize ELSE Size(evDataset)) =>
        /\ total_dataset_size = Size(evDataset)
        /\ total_dataset_size > 0
        /\ evResult.loss = <<LossSum(evDataset), Size(evDataset)>>
        /\ evResult.accuracy = <<CorrectCount(evDataset), Size(evDataset)>>

(***************************************************************************)
(* The missingness step of get_data over small files.                      *)
(***************************************************************************)
\* the longest series of the files the missingness step is run on
MaxMissLen == 5

\* missing_rate, in hundredths
MissingRates == {0, 10, 30, 50, 90}

\* a channel of n values that do not lie on a line
Curve(scale, n) == [i \in 1..n |-> scale * i * i]

InitMissing == SaveIdle /\ TrainIdle /\ SbIdle /\ MainIdle /\ DataIdle

\* get_data over a train and a test file of one sample each, of two channels
GetDataCallMissing ==
    /\ gdPc = "idle"
    /\ \E n \in 1..MaxMissLen, m \in 1..MaxMissLen, rate \in MissingRates :
          /\ m \in {1, n}
          /\ GetDataLoad(<<<<Curve(60, n), Curve(120, n)>>>>, <<<<Curve(180, m), Curve(60, m)>>>>)
          /\ missing_rate' = rate
    /\ UNCHANGED <<missTrace, raw_y, all_y, targets, counter, split, datasets>>
    /\ UNCHANGED <<fsVars, saveVars, trainVars, sbVars, mainVars, ueaVars, evalVars>>

NextMissing ==
    \/ GetDataCallMissing
    \/ GetDataMaxlen
    \/ GetDataPadSample
    \/ GetDataTranspose
    \/ GetDataMissingEnter
    \/ GetDataRemoveAny

SpecMissing == InitMissing /\ [][NextMissing]_vars

\* the points removed by an iteration of the missingness step
RemovedSet(e) == {e.removed_points[i] : i \in 1..Len(e.removed_points)}

\* the value all_X holds at point t of the sample and channel of iteration e
ValueNow(e, t) == all_X[e.batch_index + 1][t + 1][e.channel_index + 1]

\* C11: in every iteration of the missingness step the first and the last point
\* are not removed; the point paired with a removed point r as previous is the
\* greatest non-removed point below r and the one paired as next is the least
\* non-removed point above r; the value at r becomes the linear interpolation in
\* time between the values at those two points; the values at the points that
\* are not removed stay as they were.
C11_Interpolation ==
    \A k \in 1..Len(missTrace) :
        LET e == missTrace[k]
            length == Len(e.stream)
            R == RemovedSet(e)
            kept == (0..(length - 1)) \ R
        IN  /\ 0 \notin R
            /\ (length - 1) \notin R
            /\ Len(e.prev_unremoved_points) = Len(e.removed_points)
            /\ Len(e.next_unremoved_points) = Len(e.removed_points)
            /\ \A i \in 1..Len(e.removed_points) :
                  LET r == e.removed_points[i]
                      p == e.prev_unremoved_points[i]
                      n == e.next_unremoved_points[i]
                  IN  /\ p \in kept /\ p < r
                      /\ \A q \in kept : q < r => q <= p
                      /\ n \in kept /\ n > r
                      /\ \A q \in kept : q > r => q >= n
                      /\ ValueNow(e, r) * (n - p)
                            = e.stream[p + 1] * (n - r) + e.stream[n + 1] * (r - p)
            /\ \A t \in kept : ValueNow(e, t) = e.stream[t + 1]

\* the step has run over every sample and channel, and one iteration removed
\* three neighbouring points and changed the value at one of them
C11_Witness ==
    /\ gdPc = "interpolated"
    /\ missing_rate > 0
    /\ \E k \in 1..Len(missTrace) :
          /\ missTrace[k].removed_points = <<1, 2, 3>>
          /\ ValueNow(missTrace[k], 2) /= missTrace[k].stream[3]

\* C16: for a missing_rate strictly between 0 and 1 and a padded length of at
\* least 3 the missingness step raises no error and every iteration removes
\* exactly int(length * missing_rate) points.
C16_AsStated ==
    (missing_rate > 0 /\ missing_rate < 100 /\ gdPc \notin {"idle", "loaded"} /\ maxlen >= 3)
        => /\ gdPc \notin {"IndexError", "RuntimeError"}
           /\ \A k \in 1..Len(missTrace) :
                 Len(missTrace[k].removed_points) = NumToRemove(maxlen, missing_rate)

(***************************************************************************)
(* get_data from the files to its return, over small labelled files.       *)
(***************************************************************************)
\* the most samples of the train file
MaxTrainFile == 6

\* the numbers of samples of the test file
TestFileSizes == {1, 2}

\* the labels of the test file
Labels == {"a", "b", "c"}

\* the labels of the train file: a split of at most MaxTrainFile samples into
\* 80% and 20% succeeds for no more than two classes
TrainLabels == {"a", "c"}

\* a file of n samples of one channel of two points, no two samples alike
FileFrom(first, n) == [i \in 1..n |-> <<Ramp(10 * (first + i), 2)>>]

InitSplit == SaveIdle /\ TrainIdle /\ SbIdle /\ MainIdle /\ DataIdle

\* get_data(dataset_name, missing_rate=0, noise_channels=0)
GetDataCallSplit ==
    /\ gdPc = "idle"
    /\ \E n \in 1..MaxTrainFile, m \in TestFileSizes :
          /\ GetDataLoad(FileFrom(0, n), FileFrom(n, m))
          /\ \E train_y \in SeqsOfLen(TrainLabels, n), test_y \in SeqsOfLen(Labels, m) :
                raw_y' = train_y \o test_y
    /\ missing_rate' = 0
    /\ UNCHANGED <<missTrace, all_y, targets, counter, split, datasets>>
    /\ UNCHANGED <<fsVars, saveVars, trainVars, sbVars, mainVars, ueaVars, evalVars>>

NextSplit ==
    \/ GetDataCallSplit
    \/ GetDataMaxlen
    \/ GetDataPadSample
    \/ GetDataTranspose
    \/ GetDataMissingEnter
    \/ GetDataLabels
    \/ GetDataSplit
    \/ GetDataNormalise
    \/ GetDataReturn

SpecSplit == InitSplit /\ [][NextSplit]_vars

\* the positions a part of the returned data holds
Positions(part) == DOMAIN part.X

\* the sample of the files at position i, as times of channels
FileSample(i) == [t \in 1..maxlen |-> [c \in 1..Len(raw_X[i]) |-> raw_X[i][c][t]]]

\* the values of a normalised sample, without the statistics
ValuesOf(sample) == [t \in DOMAIN sample |-> [c \in DOMAIN sample[t] |-> sample[t][c].value]]

\* part holds the samples of the files at the positions P, with their labels
HoldsExactly(part, P) ==
    /\ Positions(part) = P
    /\ DOMAIN part.y = P
    /\ \A i \in P : ValuesOf(part.X[i]) = FileSample(i) /\ part.y[i] = all_y[i]

\* every value of part is normalised by the statistics of the samples of all_X
\* at the positions P
NormalisedBy(part, P) ==
    \A i \in Positions(part) : \A t \in DOMAIN part.X[i] : \A c \in DOMAIN part.X[i][t] :
        part.X[i][t][c].by = Statistics(Samples(all_X, P), c)

\* C12: once get_data has built its datasets, the test set is exactly the
\* samples of the test file (the positions after amount_train), train and
\* validation are disjoint and together exactly the samples of the train file,
\* no sample of the test file is in train or validation, and validation and
\* test (and train) are normalised with the statistics of the train split alone.
C12_Split ==
    (gdPc \in {"normalised", "returned", "AssertionError"})
        => /\ HoldsExactly(datasets.test, (amount_train + 1)..Len(raw_X))
           /\ Positions(datasets.train) \cap Positions(datasets.val) = {}
           /\ HoldsExactly(datasets.train, Positions(datasets.train))
           /\ HoldsExactly(datasets.val, Positions(datasets.val))
           /\ Positions(datasets.train) \cup Positions(datasets.val) = 1..amount_train
           /\ Positions(datasets.test) \cap (Positions(datasets.train) \cup Positions(datasets.val)) = {}
           /\ NormalisedBy(datasets.val, Positions(datasets.train))
           /\ NormalisedBy(datasets.test, Positions(datasets.train))
           /\ NormalisedBy(datasets.train, Positions(datasets.train))

\* get_data returned a train split of four samples that is not the first four
\* of the train file, a validation split of two and a test set of two
C12_Witness ==
    /\ gdPc = "returned"
    /\ amount_train = 6
    /\ Cardinality(Positions(datasets.train)) = 4
    /\ Positions(datasets.val) = {1, 4}
    /\ Positions(datasets.test) = {7, 8}

\* the labels of the files and the integers they were given
LabelsOfFiles == {raw_y[i] : i \in 1..Len(raw_y)}
ClassIndices == {all_y[i] : i \in 1..Len(all_y)}

\* the labels are mapped one-to-one onto 0..k-1 in order of first appearance
\* and counter is k, the number of distinct labels of the two files
RemappedInOrder ==
    /\ Len(all_y) = Len(raw_y)
    /\ \A i, j \in 1..Len(raw_y) : (raw_y[i] = raw_y[j]) <=> (all_y[i] = all_y[j])
    /\ ClassIndices = 0..(Cardinality(LabelsOfFiles) - 1)
    /\ \A i \in 1..Len(all_y) :
          \/ \E h \in 1..(i - 1) : all_y[h] = all_y[i]
          \/ all_y[i] = Cardinality({all_y[h] : h \in 1..(i - 1)})
    /\ counter = Cardinality(LabelsOfFiles)

\* the class indices of the train dataset
TrainClassIndices == {datasets.train.y[i] : i \in DOMAIN datasets.train.y}

\* C17 as stated: the labels are remapped one-to-one in order of first
\* appearance, num_classes is the number of distinct labels of train and test
\* together, and every class index in 0..num_classes-1 occurs in the train
\* dataset.
C17_AsStated ==
    /\ (all_y /= <<>>) => RemappedInOrder
    /\ (gdPc = "returned")
          => /\ datasets.num_classes = Cardinality(LabelsOfFiles)
             /\ \A c \in 0..(datasets.num_classes - 1) : c \in TrainClassIndices

\* C17 amended: the labels are remapped one-to-one in order of first
\* appearance, num_classes is the number of distinct labels of train and test
\* together, and the class index of every label of the train file occurs in the
\* train dataset; the class indices of the train dataset are those of the train
\* file, so that of a label found in the test file alone does not occur.
C17_Remapping ==
    /\ (all_y /= <<>>) => RemappedInOrder
    /\ (gdPc = "returned")
          => /\ datasets.num_classes = Cardinality(LabelsOfFiles)
             /\ TrainClassIndices = {all_y[i] : i \in 1..amount_train}

\* get_data returned three classes, indexed in the order c, a, b, of which the
\* third is a label of the test file alone
C17_Witness ==
    /\ gdPc = "returned"
    /\ raw_y = <<"c", "a", "c", "a", "a", "c", "b">>
    /\ all_y = <<0, 1, 0, 1, 1, 0, 2>>
    /\ datasets.num_classes = 3
    /\ TrainClassIndices = {0, 1}

====
